---- MODULE Spec2Model ----
(***************************************************************************)
(* A model of NFLverse_scraping.py: the SimpleExtractor paragraph reducer, *)
(* the record and coach extractors, and the scrape_teams crawl loop with   *)
(* the module-level sink that follows it.                                  *)
(*                                                                         *)
(* Text is a sequence of one-character strings.  HTML is the stream of     *)
(* start-tag, end-tag and data events that HTMLParser.feed dispatches to   *)
(* the handlers.                                                           *)
(***************************************************************************)
EXTENDS Integers, Sequences, FiniteSets, TLC

VARIABLES
    teams,      \* scrape_teams' argument: the list of team codes
    stop,       \* years = range(YearStart, stop)
    ti,         \* position of the outer loop in teams (0 before the first)
    year,       \* the inner loop's current year
    pc,         \* the control point of the running code
    url,        \* the URL built for the current WorkItem
    html,       \* what fetch_html returned for it
    parser,     \* the SimpleExtractor instance
    record,     \* extract_info_from_html's record
    coaches,    \* extract_info_from_html's / extract_coaches' names
    rows,       \* scrape_teams' rows
    delay,      \* the value random.uniform drew for time.sleep
    df,         \* the module-level data frame (scrape_teams' result)
    csv,        \* the contents of the local CSV file
    uploaded,   \* what was uploaded and loaded into the warehouse
    fetches,    \* the URLs fetch_html was called with, in order
    run,        \* which run of the pipeline this is (1 or 2)
    site,       \* the pages the fetcher has served, by URL
    table1,     \* the first run's table
    fed,        \* the events HTMLParser.feed has dispatched so far
    pidx,       \* position of the loop over parser.paragraphs
    log,        \* the calls scrape_teams' inner loop has made, in order
    tokens      \* the pieces a page's single "Coach:" paragraph is made of

vars == <<teams, stop, ti, year, pc, url, html, parser, record, coaches, rows,
          delay, df, csv, uploaded, fetches, run, site, table1, fed, pidx,
          log, tokens>>

crawlVars == <<teams, stop, ti, year, url, html, rows, delay, df, csv,
               uploaded, fetches, run, site, table1, log>>

----------------------------------------------------------------------------
(* Bounds of the model. *)

MaxEvents == 5      \* events fed to one parser
MaxParas == 3       \* paragraphs of one page given to the extractors
MaxTokens == 5      \* pieces of one "Coach:" paragraph
MaxStop == 2004     \* largest stop of the year range (the code's is 2026)

----------------------------------------------------------------------------
(* Characters and Python's string helpers. *)

Whitespace == {" ", "\t", "\n"}
Digits == {"0", "1", "2", "3", "4", "5", "6", "7", "8", "9"}

IsSpace(c) == c \in Whitespace
IsDigit(c) == c \in Digits

\* The first index >= i of s holding a character outside / inside set S.
RECURSIVE SkipIn(_, _, _)
SkipIn(s, i, S) ==
    IF i <= Len(s) /\ s[i] \in S THEN SkipIn(s, i + 1, S) ELSE i

RECURSIVE SkipNotIn(_, _, _)
SkipNotIn(s, i, S) ==
    IF i <= Len(s) /\ s[i] \notin S THEN SkipNotIn(s, i + 1, S) ELSE i

\* "".join(seqs)
RECURSIVE Concat(_)
Concat(seqs) ==
    IF seqs = <<>> THEN <<>> ELSE Head(seqs) \o Concat(Tail(seqs))

\* s.split(): the maximal runs of non-whitespace, from index i on.
RECURSIVE StrSplitFrom(_, _)
StrSplitFrom(s, i) ==
    LET a == SkipIn(s, i, Whitespace)
        b == SkipNotIn(s, a, Whitespace)
    IN  IF a > Len(s) THEN <<>>
        ELSE <<SubSeq(s, a, b - 1)>> \o StrSplitFrom(s, b)

StrSplit(s) == StrSplitFrom(s, 1)

\* sep.join(seqs)
RECURSIVE StrJoin(_, _)
StrJoin(sep, seqs) ==
    IF seqs = <<>> THEN <<>>
    ELSE IF Len(seqs) = 1 THEN Head(seqs)
    ELSE Head(seqs) \o sep \o StrJoin(sep, Tail(seqs))

\* The last index <= i of s holding a non-whitespace character (0 if none).
RECURSIVE LastNonSpace(_, _)
LastNonSpace(s, i) ==
    IF i >= 1 /\ IsSpace(s[i]) THEN LastNonSpace(s, i - 1) ELSE i

\* s.strip()
Strip(s) ==
    SubSeq(s, SkipIn(s, 1, Whitespace), LastNonSpace(s, Len(s)))

\* s.startswith(prefix)
StartsWith(s, prefix) ==
    /\ Len(s) >= Len(prefix)
    /\ SubSeq(s, 1, Len(prefix)) = prefix

\* Whether pat occurs in s at index i.
OccursAt(s, i, pat) ==
    /\ i >= 1
    /\ i + Len(pat) - 1 <= Len(s)
    /\ SubSeq(s, i, i + Len(pat) - 1) = pat

----------------------------------------------------------------------------
(* SimpleExtractor: the paragraph reducer. *)

StartEv(tag) == [kind |-> "start", tag |-> tag, data |-> <<>>]
EndEv(tag) == [kind |-> "end", tag |-> tag, data |-> <<>>]
DataEv(d) == [kind |-> "data", tag |-> "", data |-> d]

\* SimpleExtractor.__init__
SimpleExtractor == [in_p |-> FALSE, buffer |-> <<>>, paragraphs |-> <<>>]

\* Mutant of handle_starttag: a <p> keeps what was buffered before it.
handle_starttag_keep_buffer(self, tag) ==
    IF tag = "p"
    THEN [self EXCEPT !.in_p = TRUE]
    ELSE self

handle_starttag(self, tag) ==
    IF tag = "p"
    THEN [self EXCEPT !.in_p = TRUE, !.buffer = <<>>]
    ELSE self

\* Mutant of handle_endtag: the text is stripped, runs inside it are kept.
handle_endtag_strip_only(self, tag) ==
    IF tag = "p" /\ self.in_p
    THEN [self EXCEPT !.paragraphs = Append(@, Strip(Concat(self.buffer))),
                      !.in_p = FALSE]
    ELSE self

\* Mutant of handle_endtag: every </p> flushes, in_p or not.
handle_endtag_any(self, tag) ==
    IF tag = "p"
    THEN [self EXCEPT !.paragraphs =
                          Append(@, StrJoin(<<" ">>, StrSplit(Concat(self.buffer)))),
                      !.in_p = FALSE]
    ELSE self

handle_endtag(self, tag) ==
    IF tag = "p" /\ self.in_p
    THEN LET joined == Concat(self.buffer)
             cleaned == StrJoin(<<" ">>, StrSplit(joined))
         IN  [self EXCEPT !.paragraphs = Append(@, cleaned), !.in_p = FALSE]
    ELSE self

handle_data(self, data) ==
    IF self.in_p
    THEN [self EXCEPT !.buffer = Append(@, data)]
    ELSE self

\* HTMLParser's dispatch of one event to its handler.
Dispatch(self, ev) ==
    CASE ev.kind = "start" -> handle_starttag(self, ev.tag)
      [] ev.kind = "end" -> handle_endtag(self, ev.tag)
      [] OTHER -> handle_data(self, ev.data)

\* parser.feed(html)
RECURSIVE Feed(_, _)
Feed(self, events) ==
    IF events = <<>> THEN self
    ELSE Feed(Dispatch(self, Head(events)), Tail(events))

----------------------------------------------------------------------------
(* Values shared by the initial states. *)

None == [some |-> FALSE, val |-> <<>>]
Some(v) == [some |-> TRUE, val |-> v]

Idle ==
    /\ teams = <<>> /\ stop = 0 /\ ti = 0 /\ year = 0
    /\ url = <<>> /\ html = <<>> /\ rows = <<>> /\ delay = 0
    /\ df = None /\ csv = None /\ uploaded = None /\ fetches = <<>>
    /\ run = 1 /\ site = <<>> /\ table1 = <<>> /\ log = <<>>

----------------------------------------------------------------------------
(* The reducer fed one event at a time. *)

Tags == {"p", "b"}
DataPool == {<<"A">>, <<" ", "\n">>, <<"\t", "B", " ", " ", "C">>}

\* The document <p>A<p>B</p>C</p>, as the events feed dispatches for it.
NestedExample ==
    <<StartEv("p"), DataEv(<<"A">>), StartEv("p"), DataEv(<<"B">>),
      EndEv("p"), DataEv(<<"C">>), EndEv("p")>>

\* The documents fed: every stream of at most MaxEvents events over Tags and
\* DataPool, and NestedExample.  ev can be dispatched next if the events fed
\* so far followed by ev begin one of them.
CanFeed(ev, pool) ==
    \/ Len(fed) < MaxEvents /\ pool
    \/ /\ Len(fed) < Len(NestedExample)
       /\ Append(fed, ev) = SubSeq(NestedExample, 1, Len(fed) + 1)

InitParse ==
    /\ Idle /\ tokens = <<>>
    /\ pc = "feed"
    /\ parser = SimpleExtractor
    /\ fed = <<>>
    /\ record = None /\ coaches = <<>> /\ pidx = 0

StartTag ==
    /\ pc = "feed"
    /\ \E tag \in Tags :
        /\ CanFeed(StartEv(tag), TRUE)
        /\ fed' = Append(fed, StartEv(tag))
        /\ parser' = handle_starttag(parser, tag)
    /\ UNCHANGED <<pc, record, coaches, pidx, crawlVars, tokens>>

EndTag ==
    /\ pc = "feed"
    /\ \E tag \in Tags :
        /\ CanFeed(EndEv(tag), TRUE)
        /\ fed' = Append(fed, EndEv(tag))
        /\ parser' = handle_endtag(parser, tag)
    /\ UNCHANGED <<pc, record, coaches, pidx, crawlVars, tokens>>

Data ==
    /\ pc = "feed"
    /\ \E d \in DataPool \cup {NestedExample[4].data, NestedExample[6].data} :
        /\ CanFeed(DataEv(d), d \in DataPool)
        /\ fed' = Append(fed, DataEv(d))
        /\ parser' = handle_data(parser, d)
    /\ UNCHANGED <<pc, record, coaches, pidx, crawlVars, tokens>>

\* The end of the document: feed returns.
FeedReturns ==
    /\ pc = "feed"
    /\ pc' = "fed"
    /\ UNCHANGED <<fed, parser, record, coaches, pidx, crawlVars, tokens>>

NextParse == StartTag \/ EndTag \/ Data \/ FeedReturns

SpecParse == InitParse /\ [][NextParse]_vars

----------------------------------------------------------------------------
(* What the reducer is to produce, stated over the events fed. *)

\* s with every run of whitespace collapsed to one space, none at the ends;
\* out is what was produced so far, gap whether whitespace is pending.
RECURSIVE CollapseInto(_, _, _)
CollapseInto(s, out, gap) ==
    IF s = <<>> THEN out
    ELSE IF Head(s) \in Whitespace
    THEN CollapseInto(Tail(s), out, out # <<>>)
    ELSE CollapseInto(Tail(s),
                      out \o (IF gap THEN <<" ">> ELSE <<>>) \o <<Head(s)>>,
                      FALSE)

Collapsed(s) == CollapseInto(s, <<>>, FALSE)

NoEdgeSpace(s) == s = <<>> \/ (s[1] # " " /\ s[Len(s)] # " ")
NoDoubleSpace(s) == \A i \in 1..(Len(s) - 1) : ~(s[i] = " " /\ s[i + 1] = " ")
NoNewlineOrTab(s) == \A i \in 1..Len(s) : s[i] \notin {"\n", "\t"}

IsPTag(ev) == ev.kind \in {"start", "end"} /\ ev.tag = "p"

\* The last <p> or </p> among the first j - 1 events of h (0 if none).
LastPEvent(h, j) ==
    LET P == {k \in 1..(j - 1) : IsPTag(h[k])}
    IN  IF P = {} THEN 0 ELSE CHOOSE k \in P : \A m \in P : m <= k

\* Event j of h arrives inside a paragraph: the nearest earlier <p> or </p>
\* is a <p>.
InsideAt(h, j) ==
    LastPEvent(h, j) > 0 /\ h[LastPEvent(h, j)].kind = "start"

\* The data events of h strictly between events i and j, in order.
RECURSIVE DataBetween(_, _, _)
DataBetween(h, i, j) ==
    IF i + 1 >= j THEN <<>>
    ELSE (IF h[i + 1].kind = "data" THEN <<h[i + 1].data>> ELSE <<>>)
         \o DataBetween(h, i + 1, j)

IsFlush(h, j) == h[j] = EndEv("p") /\ InsideAt(h, j)

\* The paragraphs the first j events of h give, in document order.
RECURSIVE ExpectedParagraphs(_, _)
ExpectedParagraphs(h, j) ==
    IF j = 0 THEN <<>>
    ELSE ExpectedParagraphs(h, j - 1)
         \o (IF IsFlush(h, j)
             THEN <<Collapsed(Concat(DataBetween(h, LastPEvent(h, j), j)))>>
             ELSE <<>>)

Fired == Len(fed') = Len(fed) + 1
Arrived == fed'[Len(fed')]
Flushed == parser'.paragraphs # parser.paragraphs

\* One step of the reducer: what a flush appends.
C9_Emitted ==
    Flushed =>
        LET out == parser'.paragraphs[Len(parser'.paragraphs)]
            inp == Concat(parser.buffer)
        IN  /\ parser.buffer = DataBetween(fed', LastPEvent(fed', Len(fed')), Len(fed'))
            /\ out = Collapsed(inp)
            /\ NoEdgeSpace(out)
            /\ NoDoubleSpace(out)
            /\ NoNewlineOrTab(out)
            /\ SelectSeq(out, LAMBDA c : c # " ")
                 = SelectSeq(inp, LAMBDA c : c \notin Whitespace)

\* C9: every paragraph the reducer emits is the concatenation of the text
\* fragments buffered for it with each run of whitespace (space, newline,
\* tab) collapsed to one space: no space at either end, no two adjacent
\* spaces, no newline or tab, and the words of the input in their order.
C9_WhitespaceCollapsed == [][C9_Emitted]_vars

\* A paragraph was emitted whose fragments "A" and "\tB  C" held a tab and a
\* run of two spaces.
C9_Witness ==
    /\ Len(fed) >= 4
    /\ fed[Len(fed)] = EndEv("p")
    /\ fed[Len(fed) - 1] = DataEv(<<"\t", "B", " ", " ", "C">>)
    /\ fed[Len(fed) - 2] = DataEv(<<"A">>)
    /\ fed[Len(fed) - 3] = StartEv("p")
    /\ parser.paragraphs = <<<<"A", " ", "B", " ", "C">>>>

\* C10, one event: a paragraph is appended exactly when a </p> arrives while
\* in_p is true, and data is buffered exactly when it arrives while in_p is
\* true.
C10_Event ==
    /\ Flushed <=> (Fired /\ Arrived = EndEv("p") /\ parser.in_p)
    /\ Flushed =>
        /\ Len(parser'.paragraphs) = Len(parser.paragraphs) + 1
        /\ SubSeq(parser'.paragraphs, 1, Len(parser.paragraphs)) = parser.paragraphs
    /\ (Fired /\ Arrived.kind = "data" /\ parser.in_p)
         => parser'.buffer = Append(parser.buffer, Arrived.data)
    /\ (Fired /\ Arrived.kind = "data" /\ ~parser.in_p)
         => parser'.buffer = parser.buffer

\* C10, every state: the output is, in document order, one paragraph per
\* </p> that arrived inside a paragraph; without a <p> it is empty; what
\* follows a <p> that is not closed is in no paragraph.
C10_Output ==
    /\ parser.paragraphs = ExpectedParagraphs(fed, Len(fed))
    /\ parser.in_p = InsideAt(fed, Len(fed) + 1)
    /\ (\A k \in 1..Len(fed) : fed[k] # StartEv("p")) => parser.paragraphs = <<>>
    /\ Len(parser.paragraphs)
         = Cardinality({j \in 1..Len(fed) : IsFlush(fed, j)})

\* C10: for every stream of start-tag, end-tag and text events the reducer
\* appends a paragraph exactly when a </p> arrives while the inside-paragraph
\* flag is true and buffers text only while it is true; so the output is in
\* document order, is empty without a <p> (a stray </p> emits nothing), and
\* text after a <p> never closed before the end is not in the output.
C10_FlushOnlyInside == [][C10_Event]_vars /\ []C10_Output

\* The document ended inside an unclosed <p> with text buffered, after a
\* stray </p> and one emitted paragraph.
C10_Witness ==
    /\ pc = "fed"
    /\ parser.in_p
    /\ parser.buffer # <<>>
    /\ Len(parser.paragraphs) = 1
    /\ fed[1] = EndEv("p")

\* What a stack of open paragraphs would hold after the first j events of h:
\* each <p> pushes, each </p> pops if there is one to pop.
RECURSIVE Depth(_, _)
Depth(h, j) ==
    IF j = 0 THEN 0
    ELSE LET d == Depth(h, j - 1)
         IN  IF h[j] = StartEv("p") THEN d + 1
             ELSE IF h[j] = EndEv("p") /\ d > 0 THEN d - 1
             ELSE d

\* The most recent <p> among the first j - 1 events of h (0 if none).
MostRecentStart(h, j) ==
    LET P == {k \in 1..(j - 1) : h[k] = StartEv("p")}
    IN  IF P = {} THEN 0 ELSE CHOOSE k \in P : \A m \in P : m <= k

\* The text of the data events of h strictly between events i and j.
TextBetween(h, i, j) == Concat(DataBetween(h, i, j))

\* C11, one event.  A <p> received inside a paragraph empties the buffer and
\* emits nothing; a </p> received inside one emits the text since the most
\* recent <p> and leaves the paragraph, however many <p> are open; text and
\* a </p> received outside one change neither the buffer nor the output.
C11_Event ==
    Fired =>
        LET n == Len(fed')
            open == Depth(fed, Len(fed))
        IN  /\ (Arrived = StartEv("p") /\ parser.in_p) =>
                  /\ parser'.buffer = <<>>
                  /\ parser'.in_p
                  /\ parser'.paragraphs = parser.paragraphs
            /\ (Arrived = EndEv("p") /\ parser.in_p) =>
                  /\ open >= 1
                  /\ ~parser'.in_p
                  /\ parser'.paragraphs =
                       Append(parser.paragraphs,
                              Collapsed(TextBetween(fed', MostRecentStart(fed', n), n)))
            /\ (Arrived = EndEv("p") /\ ~parser.in_p) =>
                  /\ parser'.paragraphs = parser.paragraphs
                  /\ ~parser'.in_p
            /\ (Arrived.kind = "data" /\ ~parser.in_p) =>
                  /\ parser'.buffer = parser.buffer
                  /\ parser'.paragraphs = parser.paragraphs

\* C11, every state: the flag is the last <p> or </p> seen, not the depth of
\* a stack, and the example document gives exactly one paragraph, "B".
C11_State ==
    /\ parser.in_p <=> InsideAt(fed, Len(fed) + 1)
    /\ parser.in_p => Depth(fed, Len(fed)) >= 1
    /\ Len(parser.paragraphs) <= Cardinality({j \in 1..Len(fed) : fed[j] = EndEv("p")})
    /\ \A j \in 1..Len(NestedExample) :
         fed = SubSeq(NestedExample, 1, j) =>
             /\ parser.paragraphs = (IF j >= 5 THEN <<<<"B">>>> ELSE <<>>)
             /\ parser.in_p <=> j \in 1..4
             /\ Depth(fed, Len(fed)) = (CASE j \in {1, 2, 5, 6} -> 1
                                          [] j \in {3, 4} -> 2
                                          [] OTHER -> 0)

\* C11: nested paragraph tags are tracked with one boolean, not a stack.  A
\* <p> received inside a paragraph discards the text buffered so far; the
\* next </p> emits only the text after that most recent <p> and leaves the
\* paragraph; text between that </p> and the outer </p> is not captured and
\* the outer </p> emits nothing.  The events <p> A <p> B </p> C </p> give
\* exactly the output <<"B">>.
C11_NestedBoolean == [][C11_Event]_vars /\ []C11_State

\* The whole example document was fed and feed returned: a stack would have
\* closed both paragraphs, the reducer emitted "B" alone.
C11_Witness ==
    /\ pc = "fed"
    /\ fed = NestedExample
    /\ parser.paragraphs = <<<<"B">>>>
    /\ ~parser.in_p
    /\ parser.buffer = <<<<"B">>>>

----------------------------------------------------------------------------
(* The field extractors. *)

RecordPrefix == <<"R", "e", "c", "o", "r", "d", ":">>
CoachPrefix == <<"C", "o", "a", "c", "h", ":">>
AndWord == <<"a", "n", "d">>

\* \d+-\d+-\d+ matched at index i of s: the index of the match's last
\* character, 0 when there is no match at i.  Each \d+ takes its whole run of
\* digits: a shorter run is followed by a digit, never by the "-" or ")"
\* the pattern wants next.
TripleEnd(s, i) ==
    LET a == SkipIn(s, i, Digits)
        b == SkipIn(s, a + 1, Digits)
        c == SkipIn(s, b + 1, Digits)
    IN  IF /\ a > i /\ a <= Len(s) /\ s[a] = "-"
           /\ b > a + 1 /\ b <= Len(s) /\ s[b] = "-"
           /\ c > b + 1
        THEN c - 1
        ELSE 0

\* Mutant of record_re_search: the rightmost match.
record_re_search_last(s) ==
    LET M == {i \in 1..Len(s) : TripleEnd(s, i) > 0}
    IN  IF M = {} THEN None
        ELSE LET i == CHOOSE k \in M : \A m \in M : k >= m
             IN  Some(SubSeq(s, i, TripleEnd(s, i)))

\* record_re.search(s): the leftmost match, as Some(group 1), or None.
record_re_search(s) ==
    LET M == {i \in 1..Len(s) : TripleEnd(s, i) > 0}
    IN  IF M = {} THEN None
        ELSE LET i == CHOOSE k \in M : \A m \in M : k <= m
             IN  Some(SubSeq(s, i, TripleEnd(s, i)))

\* coach_re.search(s): after the leftmost "Coach:", \s* skips the whitespace
\* and (.*) takes the rest of the line.
coach_re_search(s) ==
    LET M == {i \in 1..Len(s) : OccursAt(s, i, CoachPrefix)}
    IN  IF M = {} THEN None
        ELSE LET i == CHOOSE k \in M : \A m \in M : k <= m
                 a == SkipIn(s, i + Len(CoachPrefix), Whitespace)
                 b == SkipNotIn(s, a, {"\n"})
             IN  Some(SubSeq(s, a, b - 1))

\* re.sub(r"\(\d+-\d+-\d+\)", "", s), from index i on.
RECURSIVE re_sub_records(_, _)
re_sub_records(s, i) ==
    IF i > Len(s) THEN <<>>
    ELSE LET e == TripleEnd(s, i + 1)
         IN  IF s[i] = "(" /\ e > 0 /\ e < Len(s) /\ s[e + 1] = ")"
             THEN re_sub_records(s, e + 2)
             ELSE <<s[i]>> \o re_sub_records(s, i + 1)

\* Mutant of SeparatorEnd: only "and" separates, a comma does not.
SeparatorEndAndOnly(s, i) ==
    LET a == SkipIn(s, i, Whitespace)
        b == SkipIn(s, a + Len(AndWord), Whitespace)
    IN  IF a > i /\ OccursAt(s, a, AndWord) /\ b > a + Len(AndWord)
        THEN b - 1
        ELSE 0

\* \s+and\s+|,\s* matched at index i of s: the index of the match's last
\* character, 0 when there is no match at i.
SeparatorEnd(s, i) ==
    LET a == SkipIn(s, i, Whitespace)
        b == SkipIn(s, a + Len(AndWord), Whitespace)
    IN  IF a > i /\ OccursAt(s, a, AndWord) /\ b > a + Len(AndWord)
        THEN b - 1
        ELSE IF s[i] = ","
        THEN SkipIn(s, i + 1, Whitespace) - 1
        ELSE 0

\* re.split(r"\s+and\s+|,\s*", s): the scan is at index i, the current
\* fragment starts at index from.
RECURSIVE re_split_names(_, _, _)
re_split_names(s, i, from) ==
    IF i > Len(s) THEN <<SubSeq(s, from, Len(s))>>
    ELSE LET e == SeparatorEnd(s, i)
         IN  IF e > 0
             THEN <<SubSeq(s, from, i - 1)>> \o re_split_names(s, e + 1, e + 1)
             ELSE re_split_names(s, i + 1, from)

\* [p.strip() for p in parts if p.strip()]
RECURSIVE StripNonEmpty(_)
StripNonEmpty(ps) ==
    IF ps = <<>> THEN <<>>
    ELSE (IF Strip(Head(ps)) # <<>> THEN <<Strip(Head(ps))>> ELSE <<>>)
         \o StripNonEmpty(Tail(ps))

extract_coaches(p) ==
    LET m == coach_re_search(p)
    IN  IF ~m.some THEN <<>>
        ELSE StripNonEmpty(re_split_names(re_sub_records(m.val, 1), 1, 1))

\* Mutant of LoopBody: the first "Coach:" paragraph with names wins.
LoopBodyFirstWins(acc, p) ==
    LET stripped == Strip(p)
        m == record_re_search(stripped)
    IN  [record |-> IF StartsWith(stripped, RecordPrefix) /\ m.some
                    THEN m
                    ELSE acc.record,
         coaches |-> IF StartsWith(stripped, CoachPrefix) /\ acc.coaches = <<>>
                     THEN extract_coaches(stripped)
                     ELSE acc.coaches]

\* Mutant of LoopBody: a "Record:" paragraph without a match resets record.
LoopBodyRecordReset(acc, p) ==
    LET stripped == Strip(p)
        m == record_re_search(stripped)
    IN  [record |-> IF StartsWith(stripped, RecordPrefix)
                    THEN m
                    ELSE acc.record,
         coaches |-> IF StartsWith(stripped, CoachPrefix)
                     THEN extract_coaches(stripped)
                     ELSE acc.coaches]

\* One iteration of extract_info_from_html's loop: acc holds record and
\* coaches, p is the paragraph.
LoopBody(acc, p) ==
    LET stripped == Strip(p)
        m == record_re_search(stripped)
    IN  [record |-> IF StartsWith(stripped, RecordPrefix) /\ m.some
                    THEN m
                    ELSE acc.record,
         coaches |-> IF StartsWith(stripped, CoachPrefix)
                     THEN extract_coaches(stripped)
                     ELSE acc.coaches]

\* The loop of extract_info_from_html over the first n paragraphs.
RECURSIVE ExtractFields(_, _)
ExtractFields(paragraphs, n) ==
    IF n = 0 THEN [record |-> None, coaches |-> <<>>]
    ELSE LoopBody(ExtractFields(paragraphs, n - 1), paragraphs[n])

\* extract_info_from_html(html)
extract_info_from_html(events) ==
    LET p == Feed(SimpleExtractor, events)
    IN  ExtractFields(p.paragraphs, Len(p.paragraphs))

----------------------------------------------------------------------------
(* The extractors run over the paragraphs of one page. *)

\* "Record: 9-7-0, 1st in NFC West"
ParaRecord ==
    <<"R", "e", "c", "o", "r", "d", ":", " ", "9", "-", "7", "-", "0", ",",
      " ", "1", "s", "t", " ", "i", "n", " ", "N", "F", "C", " ", "W", "e",
      "s", "t">>

\* "Record: unknown"
ParaRecordUnknown ==
    <<"R", "e", "c", "o", "r", "d", ":", " ", "u", "n", "k", "n", "o", "w",
      "n">>

\* "Record: 12-3-45-6"
ParaRecordLong ==
    <<"R", "e", "c", "o", "r", "d", ":", " ", "1", "2", "-", "3", "-", "4",
      "5", "-", "6">>

\* "Record: 1--2-3-4"
ParaRecordBroken ==
    <<"R", "e", "c", "o", "r", "d", ":", " ", "1", "-", "-", "2", "-", "3",
      "-", "4">>

\* "Team Record: 3-4-5"
ParaPoints ==
    <<"T", "e", "a", "m", " ", "R", "e", "c", "o", "r", "d", ":", " ", "3",
      "-", "4", "-", "5">>

\* "Coach: A Jones (5-3-0) and B Lee (4-4-0)"
ParaCoachAnd ==
    <<"C", "o", "a", "c", "h", ":", " ", "A", " ", "J", "o", "n", "e", "s",
      " ", "(", "5", "-", "3", "-", "0", ")", " ", "a", "n", "d", " ", "B",
      " ", "L", "e", "e", " ", "(", "4", "-", "4", "-", "0", ")">>

\* "Coach: A Jones (5-3-0), B Lee (4-4-0)"
ParaCoachComma ==
    <<"C", "o", "a", "c", "h", ":", " ", "A", " ", "J", "o", "n", "e", "s",
      " ", "(", "5", "-", "3", "-", "0", ")", ",", " ", "B", " ", "L", "e",
      "e", " ", "(", "4", "-", "4", "-", "0", ")">>

\* "Coach: John Smith (9-7-0)"
ParaCoachOne ==
    <<"C", "o", "a", "c", "h", ":", " ", "J", "o", "h", "n", " ", "S", "m",
      "i", "t", "h", " ", "(", "9", "-", "7", "-", "0", ")">>

\* "Coach:"
ParaCoachNone ==
    <<"C", "o", "a", "c", "h", ":">>

\* "Head Coach: D Ray"
ParaAssistant ==
    <<"H", "e", "a", "d", " ", "C", "o", "a", "c", "h", ":", " ", "D", " ",
      "R", "a", "y">>

ParaPool ==
    {ParaRecord, ParaRecordUnknown, ParaRecordLong, ParaRecordBroken,
     ParaPoints, ParaCoachAnd, ParaCoachComma, ParaCoachOne, ParaCoachNone,
     ParaAssistant}

\* A page with a record and a coach, then "Record: unknown" and "Coach:".
ParasAsymmetric ==
    <<ParaRecord, ParaCoachOne, ParaRecordUnknown, ParaCoachNone>>

\* The sequences over S of length at most n.
SeqsUpTo(S, n) == UNION {[1..k -> S] : k \in 0..n}

\* The pieces of a "Coach:" paragraph: two names (one with "and" inside a
\* word), a parenthesized record, a space, the word "and", a comma.
NameJones == <<"A", " ", "J", "o", "n", "e", "s">>
NameRandy == <<"R", "a", "n", "d", "y">>
RecPiece == <<"(", "5", "-", "3", "-", "0", ")">>
SpacePiece == <<" ">>
CommaPiece == <<",">>
Pieces == {NameJones, NameRandy, RecPiece, SpacePiece, AndWord, CommaPiece}

\* The reducer emits whitespace-normalized text: single spaces, none last.
Normalized(ts) ==
    /\ \A k \in 1..(Len(ts) - 1) : ~(ts[k] = SpacePiece /\ ts[k + 1] = SpacePiece)
    /\ ts # <<>> => ts[Len(ts)] # SpacePiece

\* What may follow "Coach:": an optional space, then at most MaxTokens pieces.
TokenInputs ==
    LET T == {ts \in SeqsUpTo(Pieces, MaxTokens) :
                 Normalized(ts) /\ (ts # <<>> => ts[1] # SpacePiece)}
    IN  T \cup {<<SpacePiece>> \o ts : ts \in T \ {<<>>}}

CoachParagraph(ts) == CoachPrefix \o Concat(ts)

\* A page whose paragraphs are drawn from the pool (at most MaxParas of them,
\* or the four of ParasAsymmetric), or a page with the one "Coach:" paragraph
\* made of the pieces in tokens.
InitExtract ==
    /\ Idle
    /\ pc = "paragraphs"
    /\ fed = <<>>
    /\ \/ /\ tokens = <<>>
          /\ \E ps \in SeqsUpTo(ParaPool, MaxParas) \cup {ParasAsymmetric} :
               parser = [in_p |-> FALSE, buffer |-> <<>>, paragraphs |-> ps]
       \/ /\ tokens \in TokenInputs
          /\ parser = [in_p |-> FALSE, buffer |-> <<>>,
                       paragraphs |-> <<CoachParagraph(tokens)>>]
    /\ record = None /\ coaches = <<>> /\ pidx = 0

\* for p in parser.paragraphs: one iteration.
NextParagraph ==
    /\ pc = "paragraphs"
    /\ pidx < Len(parser.paragraphs)
    /\ pidx' = pidx + 1
    /\ LET r == LoopBody([record |-> record, coaches |-> coaches],
                         parser.paragraphs[pidx + 1])
       IN  record' = r.record /\ coaches' = r.coaches
    /\ UNCHANGED <<pc, parser, fed, crawlVars, tokens>>

\* return record, coaches
ReturnFields ==
    /\ pc = "paragraphs"
    /\ pidx = Len(parser.paragraphs)
    /\ pc' = "extracted"
    /\ UNCHANGED <<pidx, record, coaches, parser, fed, crawlVars, tokens>>

NextExtract == NextParagraph \/ ReturnFields

SpecExtract == InitExtract /\ [][NextExtract]_vars

----------------------------------------------------------------------------
(* What the extractors are to return, stated over the paragraphs. *)

\* x has the form digits-digits-digits.
IsTriple(x) ==
    LET D == {k \in 1..Len(x) : x[k] = "-"}
    IN  /\ \A k \in 1..Len(x) : x[k] \in Digits \cup {"-"}
        /\ Cardinality(D) = 2
        /\ 1 \notin D /\ Len(x) \notin D
        /\ \A k \in D : k + 1 \notin D

\* Where p holds a substring of that form.
TripleSpans(p) ==
    {sp \in (1..Len(p)) \X (1..Len(p)) :
        sp[1] + 4 <= sp[2] /\ IsTriple(SubSeq(p, sp[1], sp[2]))}

\* The leftmost of them, taken as far as it goes.
LeftmostTriple(p) ==
    LET S == TripleSpans(p)
        sp == CHOOSE x \in S : \A y \in S :
                  x[1] < y[1] \/ (x[1] = y[1] /\ x[2] >= y[2])
    IN  SubSeq(p, sp[1], sp[2])

BeginsWith(p, prefix) ==
    /\ Len(p) >= Len(prefix)
    /\ \A k \in 1..Len(prefix) : p[k] = prefix[k]

\* The record a paragraph gives on its own.
RecordGiven(p) ==
    IF BeginsWith(p, RecordPrefix) /\ TripleSpans(p) # {}
    THEN Some(LeftmostTriple(p))
    ELSE None

\* The same, computed once for the paragraphs of the pool.
RecordOfPool == [p \in ParaPool |-> RecordGiven(p)]

RecordOf(p) == IF p \in ParaPool THEN RecordOfPool[p] ELSE RecordGiven(p)

Largest(S) == CHOOSE k \in S : \A m \in S : m <= k

\* C4: a paragraph qualifies iff it starts with "Record:"; the record is the
\* leftmost digits-digits-digits substring of a qualifying paragraph, taken
\* verbatim ("Record: 9-7-0, 1st in NFC West" gives "9-7-0"); it is None when
\* no paragraph qualifies or no qualifying paragraph holds such a substring
\* ("Record: unknown").  So the record is None or has the form
\* digits-digits-digits, and a digit triple of a paragraph that does not
\* qualify never becomes the record.
C4_RecordExtraction ==
    LET ps == parser.paragraphs
        Q == {k \in 1..pidx : RecordOf(ps[k]).some}
    IN  /\ Q = {} => record = None
        /\ Q # {} => record = RecordOf(ps[Largest(Q)])
        /\ record.some => IsTriple(record.val)
        /\ (pidx = 1 /\ ps[1] = ParaRecord)
             => record = Some(<<"9", "-", "7", "-", "0">>)
        /\ (pidx = 1 /\ ps[1] = ParaRecordUnknown) => record = None
        /\ (\A k \in 1..pidx : ~BeginsWith(ps[k], RecordPrefix)) => record = None

\* "Record: 12-3-45-6" gave "12-3-45", and neither the triple of the
\* paragraph "Team Record: 3-4-5" nor "Record: unknown" changed it.
C4_Witness ==
    /\ pc = "extracted"
    /\ parser.paragraphs = <<ParaRecordLong, ParaPoints, ParaRecordUnknown>>
    /\ record = Some(<<"1", "2", "-", "3", "-", "4", "5">>)

CoachParas == {ParaCoachAnd, ParaCoachComma, ParaCoachOne, ParaCoachNone}

\* The names each "Coach:" paragraph of the pool holds.
NamesOf(p) ==
    CASE p \in {ParaCoachAnd, ParaCoachComma} ->
            <<<<"A", " ", "J", "o", "n", "e", "s">>, <<"B", " ", "L", "e", "e">>>>
      [] p = ParaCoachOne ->
            <<<<"J", "o", "h", "n", " ", "S", "m", "i", "t", "h">>>>
      [] OTHER -> <<>>

Range(f) == {f[k] : k \in DOMAIN f}

\* C6: when two or more paragraphs of a page start with "Coach:", the coaches
\* returned are the names of the last of them only; a name of an earlier one
\* is returned only if the last one holds it too.
C6_LastCoachWins ==
    LET ps == parser.paragraphs
        Q == {k \in 1..pidx : ps[k] \in CoachParas}
    IN  Cardinality(Q) >= 2 =>
            /\ coaches = NamesOf(ps[Largest(Q)])
            /\ \A k \in Q : \A n \in Range(NamesOf(ps[k])) :
                   n \in Range(coaches) => n \in Range(NamesOf(ps[Largest(Q)]))

\* Two coaches in the first "Coach:" paragraph, one other in the last.
C6_Witness ==
    /\ pc = "extracted"
    /\ parser.paragraphs = <<ParaCoachAnd, ParaRecord, ParaCoachOne>>
    /\ coaches = <<<<"J", "o", "h", "n", " ", "S", "m", "i", "t", "h">>>>

----------------------------------------------------------------------------
(* What extract_coaches is to return, stated over the pieces. *)

\* A separator starting at piece i of ts: the word "and" with spaces on both
\* sides, or a comma with the spaces after it.  The index of its last piece,
\* 0 when piece i starts none.
PieceSeparatorEnd(ts, i) ==
    LET a == SkipIn(ts, i, {SpacePiece})
    IN  IF /\ ts[i] = SpacePiece
           /\ a + 1 <= Len(ts) /\ ts[a] = AndWord /\ ts[a + 1] = SpacePiece
        THEN SkipIn(ts, a + 1, {SpacePiece}) - 1
        ELSE IF ts[i] = CommaPiece
        THEN SkipIn(ts, i + 1, {SpacePiece}) - 1
        ELSE 0

\* The fragments of ts between its separators, left to right.
RECURSIVE PieceSplit(_, _, _)
PieceSplit(ts, i, from) ==
    IF i > Len(ts) THEN <<SubSeq(ts, from, Len(ts))>>
    ELSE LET e == PieceSeparatorEnd(ts, i)
         IN  IF e > 0
             THEN <<SubSeq(ts, from, i - 1)>> \o PieceSplit(ts, e + 1, e + 1)
             ELSE PieceSplit(ts, i + 1, from)

RECURSIVE TrailingSpaces(_)
TrailingSpaces(ts) ==
    IF ts # <<>> /\ ts[Len(ts)] = SpacePiece
    THEN 1 + TrailingSpaces(SubSeq(ts, 1, Len(ts) - 1))
    ELSE 0

TrimPieces(ts) ==
    SubSeq(ts, SkipIn(ts, 1, {SpacePiece}), Len(ts) - TrailingSpaces(ts))

\* Records removed, split at the separators, each fragment trimmed, the empty
\* ones dropped.
RECURSIVE NonEmptyNames(_)
NonEmptyNames(frags) ==
    IF frags = <<>> THEN <<>>
    ELSE (IF TrimPieces(Head(frags)) # <<>>
          THEN <<Concat(TrimPieces(Head(frags)))>>
          ELSE <<>>)
         \o NonEmptyNames(Tail(frags))

NamesFrom(ts) ==
    NonEmptyNames(PieceSplit(SelectSeq(ts, LAMBDA x : x # RecPiece), 1, 1))

\* The page is the single "Coach:" paragraph made of tokens, and the loop
\* has passed it.
CoachCase ==
    /\ pidx = 1
    /\ parser.paragraphs = <<CoachParagraph(tokens)>>

\* C5 as stated: the three steps applied to the text after the prefix
\* "Coach:".
C5_AsStated ==
    CoachCase => coaches = NamesFrom(tokens)

TwoNames(a, b) ==
    {<<a, SpacePiece, AndWord, SpacePiece, b>>,
     <<a, CommaPiece, SpacePiece, b>>,
     <<a, CommaPiece, b>>}

\* C5 (amended): on a paragraph starting with "Coach:", the whitespace after
\* the prefix is skipped, then every parenthesized (digits-digits-digits) is
\* removed, the rest is split on whitespace-surrounded "and" or on a comma
\* with the whitespace after it, each fragment is trimmed and the empty ones
\* are dropped, in order.  So names joined by " and " and joined by commas
\* give the same coaches, no name is empty or has whitespace at an end, "and"
\* inside a word does not split, and without a "Coach:" paragraph coaches is
\* empty.
C5_CoachExtraction ==
    LET ps == parser.paragraphs
    IN  /\ CoachCase => coaches = NamesFrom(TrimPieces(tokens))
        /\ \A a, b \in {NameJones, NameRandy} :
             (CoachCase /\ TrimPieces(tokens) \in TwoNames(a, b))
                => coaches = <<a, b>>
        /\ (pidx = 1 /\ ps[1] \in {ParaCoachAnd, ParaCoachComma})
             => coaches = <<NameJones, <<"B", " ", "L", "e", "e">>>>
        /\ (CoachCase /\ tokens = <<SpacePiece, NameRandy>>)
             => coaches = <<NameRandy>>
        /\ \A k \in 1..Len(coaches) :
             /\ coaches[k] # <<>>
             /\ ~IsSpace(coaches[k][1])
             /\ ~IsSpace(coaches[k][Len(coaches[k])])
        /\ (\A k \in 1..pidx : ~BeginsWith(ps[k], CoachPrefix)) => coaches = <<>>

\* "Coach: A Jones and Randy" gave the two names.
C5_Witness ==
    /\ pc = "extracted"
    /\ tokens = <<SpacePiece, NameJones, SpacePiece, AndWord, SpacePiece, NameRandy>>
    /\ coaches = <<NameJones, NameRandy>>

----------------------------------------------------------------------------
(* scrape_teams and the module-level code after it. *)

YearStart == 1999       \* years = range(1999, ...)
FoundingYear == 2002    \* team == "htx" and year < 2002
DelayLo == 15           \* random.uniform(1.5, 3.5), in tenths of a second
DelayHi == 35

TeamPool == {"crd", "htx"}
Delays == {DelayLo, DelayHi}

\* The lists of distinct teams.
TeamLists ==
    {ts \in SeqsUpTo(TeamPool, Cardinality(TeamPool)) :
        \A i, j \in 1..Len(ts) : i # j => ts[i] # ts[j]}

\* A page with a record and a coach paragraph, and a page with no paragraph.
PageFull ==
    <<StartEv("p"), DataEv(ParaRecord), EndEv("p"),
      StartEv("p"), DataEv(ParaCoachOne), EndEv("p")>>
PageBare == <<StartEv("b"), DataEv(<<"x">>), EndEv("b")>>
Pages == {PageFull, PageBare}

\* No SimpleExtractor has been constructed yet.
NoParser == [in_p |-> FALSE, buffer |-> <<>>, paragraphs |-> <<>>]

\* f"https://www.pro-football-reference.com/teams/{team}/{year}.htm"
Url(team, y) ==
    <<"https://www.pro-football-reference.com/teams/", team, "/", y, ".htm">>

\* Mutant of NotYetFounded: no year is skipped.
NeverSkipped(team, y) == FALSE

\* Mutant of NotYetFounded: the founding year is skipped too.
NotYetFoundedInclusive(team, y) == team = "htx" /\ y <= FoundingYear

\* The condition of the continue: the team did not exist yet.
NotYetFounded(team, y) == team = "htx" /\ y < FoundingYear

Init ==
    /\ teams \in TeamLists
    /\ stop \in YearStart..MaxStop
    /\ ti = 0 /\ year = 0
    /\ pc = "teams"
    /\ url = <<>> /\ html = <<>>
    /\ parser = NoParser
    /\ record = None /\ coaches = <<>>
    /\ rows = <<>>
    /\ delay = 0
    /\ df = None /\ csv = None /\ uploaded = None
    /\ fetches = <<>>
    /\ run = 1 /\ site = <<>> /\ table1 = <<>> /\ log = <<>>
    /\ fed = <<>> /\ pidx = 0 /\ tokens = <<>>

extractVars == <<parser, record, coaches, fed, pidx, tokens>>
sinkVars == <<df, csv, uploaded, run, table1>>

\* for team in teams: the next team.
NextTeam ==
    /\ pc = "teams"
    /\ ti < Len(teams)
    /\ ti' = ti + 1
    /\ year' = YearStart - 1
    /\ pc' = "years"
    /\ UNCHANGED <<log, teams, stop, url, html, rows, delay, fetches, site,
                   extractVars, sinkVars>>

\* The outer loop is exhausted: df = scrape_teams(teams) gets the table.
ReturnTable ==
    /\ pc = "teams"
    /\ ti = Len(teams)
    /\ df' = Some(rows)
    /\ pc' = "to_csv"
    /\ UNCHANGED <<log, teams, stop, ti, year, url, html, rows, delay, fetches,
                   site, csv, uploaded, run, table1, extractVars>>

\* for year in years: a year the team did not exist in: continue.
SkipYear ==
    /\ pc = "years"
    /\ year + 1 < stop
    /\ NotYetFounded(teams[ti], year + 1)
    /\ year' = year + 1
    /\ UNCHANGED <<log, teams, stop, ti, pc, url, html, rows, delay, fetches, site,
                   extractVars, sinkVars>>

\* for year in years: the next WorkItem; its URL is built.
BuildUrl ==
    /\ pc = "years"
    /\ year + 1 < stop
    /\ ~NotYetFounded(teams[ti], year + 1)
    /\ year' = year + 1
    /\ url' = Url(teams[ti], year + 1)
    /\ pc' = "fetch"
    /\ UNCHANGED <<log, teams, stop, ti, html, rows, delay, fetches, site,
                   extractVars, sinkVars>>

\* The inner loop is exhausted.
YearsDone ==
    /\ pc = "years"
    /\ year + 1 >= stop
    /\ pc' = "teams"
    /\ UNCHANGED <<log, teams, stop, ti, year, url, html, rows, delay, fetches,
                   site, extractVars, sinkVars>>

\* fetch_html(url) returns the page; a URL served before gives the same page.
FetchOk ==
    /\ pc = "fetch"
    /\ \E page \in Pages :
        /\ url \in DOMAIN site => page = site[url]
        /\ html' = page
        /\ site' = (url :> page) @@ site
    /\ fetches' = Append(fetches, url)
    /\ log' = Append(log, "fetch")
    /\ pc' = "extract"
    /\ UNCHANGED <<teams, stop, ti, year, url, rows, delay, extractVars,
                   sinkVars>>

\* Mutant of FetchFails: the error is swallowed and the crawl goes on.
FetchFailsSwallowed ==
    /\ pc = "fetch"
    /\ fetches' = Append(fetches, url)
    /\ log' = Append(log, "fetch")
    /\ pc' = "years"
    /\ UNCHANGED <<teams, stop, ti, year, url, html, rows, delay, site,
                   extractVars, sinkVars>>

\* fetch_html(url) raises (network error, timeout): nothing catches it, so
\* the exception leaves scrape_teams and ends the script.
FetchFails ==
    /\ pc = "fetch"
    /\ fetches' = Append(fetches, url)
    /\ log' = Append(log, "fetch")
    /\ pc' = "raised"
    /\ UNCHANGED <<teams, stop, ti, year, url, html, rows, delay, site,
                   extractVars, sinkVars>>

\* Mutant of Extract: the paragraphs list is shared by all parsers.
ExtractSharedParser ==
    /\ pc = "extract"
    /\ parser' = Feed([parser EXCEPT !.in_p = FALSE, !.buffer = <<>>], html)
    /\ record' = ExtractFields(parser'.paragraphs, Len(parser'.paragraphs)).record
    /\ coaches' = ExtractFields(parser'.paragraphs, Len(parser'.paragraphs)).coaches
    /\ log' = Append(log, "extract")
    /\ pc' = "append"
    /\ UNCHANGED <<teams, stop, ti, year, url, html, rows, delay, fetches, site,
                   fed, pidx, tokens, sinkVars>>

\* record, coaches = extract_info_from_html(html)
Extract ==
    /\ pc = "extract"
    /\ parser' = Feed(SimpleExtractor, html)
    /\ record' = extract_info_from_html(html).record
    /\ coaches' = extract_info_from_html(html).coaches
    /\ log' = Append(log, "extract")
    /\ pc' = "append"
    /\ UNCHANGED <<teams, stop, ti, year, url, html, rows, delay, fetches, site,
                   fed, pidx, tokens, sinkVars>>

\* Mutant of AppendRow: the row is put in front.
AppendRowFront ==
    /\ pc = "append"
    /\ rows' = <<[team |-> teams[ti], year |-> year,
                  record |-> record, coaches |-> coaches]>> \o rows
    /\ log' = Append(log, "append")
    /\ pc' = "sleep"
    /\ UNCHANGED <<teams, stop, ti, year, url, html, delay, fetches, site,
                   extractVars, sinkVars>>

\* Mutant of AppendRow: the loop goes on without the politeness delay.
AppendRowNoSleep ==
    /\ pc = "append"
    /\ rows' = Append(rows, [team |-> teams[ti], year |-> year,
                             record |-> record, coaches |-> coaches])
    /\ log' = Append(log, "append")
    /\ pc' = "years"
    /\ UNCHANGED <<teams, stop, ti, year, url, html, delay, fetches, site,
                   extractVars, sinkVars>>

\* rows.append({...})
AppendRow ==
    /\ pc = "append"
    /\ rows' = Append(rows, [team |-> teams[ti], year |-> year,
                             record |-> record, coaches |-> coaches])
    /\ log' = Append(log, "append")
    /\ pc' = "sleep"
    /\ UNCHANGED <<teams, stop, ti, year, url, html, delay, fetches, site,
                   extractVars, sinkVars>>

\* time.sleep(random.uniform(1.5, 3.5))
Sleep ==
    /\ pc = "sleep"
    /\ \E d \in Delays : delay' = d
    /\ log' = Append(log, "delay")
    /\ pc' = "years"
    /\ UNCHANGED <<teams, stop, ti, year, url, html, rows, fetches, site,
                   extractVars, sinkVars>>

\* df.to_csv(local_csv, index=False)
ToCsv ==
    /\ pc = "to_csv"
    /\ csv' = df
    /\ pc' = "upload"
    /\ UNCHANGED <<log, teams, stop, ti, year, url, html, rows, delay, fetches,
                   site, df, uploaded, run, table1, extractVars>>

\* blob.upload_from_filename(local_csv) and the load job into the table.
Upload ==
    /\ pc = "upload"
    /\ uploaded' = csv
    /\ pc' = "done"
    /\ UNCHANGED <<log, teams, stop, ti, year, url, html, rows, delay, fetches,
                   site, df, csv, run, table1, extractVars>>

Next ==
    \/ NextTeam \/ ReturnTable
    \/ SkipYear \/ BuildUrl \/ YearsDone
    \/ FetchOk \/ FetchFails
    \/ Extract \/ AppendRow \/ Sleep
    \/ ToCsv \/ Upload

Spec == Init /\ [][Next]_vars

\* The script is run again on the same site: rows = [] and the loops start
\* over; the first run's table is kept for comparison.
Rerun ==
    /\ pc = "done"
    /\ run = 1
    /\ run' = 2
    /\ table1' = df.val
    /\ rows' = <<>> /\ ti' = 0 /\ fetches' = <<>> /\ log' = <<>>
    /\ pc' = "teams"
    /\ UNCHANGED <<teams, stop, year, url, html, delay, site, df, csv,
                   uploaded, extractVars>>

NextTwice == Next \/ Rerun

SpecTwice == Init /\ [][NextTwice]_vars

----------------------------------------------------------------------------
(* What the crawl is to do, stated over the team list and the year range. *)

\* The WorkItems of one team for the years y..last, ascending.
RECURSIVE ItemsOfTeam(_, _, _)
ItemsOfTeam(team, y, last) ==
    IF y > last THEN <<>>
    ELSE (IF team = "htx" /\ y < 2002 THEN <<>> ELSE <<<<team, y>>>>)
         \o ItemsOfTeam(team, y + 1, last)

\* The schedule: teams in list order, years ascending within each team.
RECURSIVE Schedule(_, _)
Schedule(ts, last) ==
    IF ts = <<>> THEN <<>>
    ELSE ItemsOfTeam(Head(ts), 1999, last) \o Schedule(Tail(ts), last)

Items(rs) == [k \in 1..Len(rs) |-> <<rs[k].team, rs[k].year>>]
ItemsFetched == [k \in 1..Len(fetches) |-> <<fetches[k][2], fetches[k][4]>>]
IsPrefix(a, b) == Len(a) <= Len(b) /\ a = SubSeq(b, 1, Len(a))
Finished == pc \in {"to_csv", "upload", "done"}

C1_Table ==
    /\ IsPrefix(Items(rows), Schedule(teams, stop - 1))
    /\ Finished =>
        /\ Items(rows) = Schedule(teams, stop - 1)
        /\ df = Some(rows)
    /\ (teams = <<>> \/ stop = 1999) =>
        /\ rows = <<>> /\ fetches = <<>>
        /\ pc # "raised"

C1_AppendOnly == IsPrefix(rows, rows')

\* C1: after a complete run the table holds exactly one row per emitted
\* (team, year) WorkItem, whatever the pages held, in scheduling order (teams
\* in list order, years ascending within a team); at every moment the table
\* is a prefix of that sequence and rows are only appended; with an empty
\* team list or year range the run ends without error, with an empty table
\* and no fetch.
C1_RowsInScheduleOrder == []C1_Table /\ [][C1_AppendOnly]_vars

\* A complete run over crd then htx for 1999..2003: seven rows, the sixth
\* being htx 2002, with pages of both kinds.
C1_Witness ==
    /\ pc = "done"
    /\ teams = <<"crd", "htx">> /\ stop = 2004
    /\ Len(rows) = 7
    /\ rows[6].team = "htx" /\ rows[6].year = 2002
    /\ rows[1].record = None /\ rows[2].record # None

Count(seq, x) == Cardinality({k \in 1..Len(seq) : seq[k] = x})

\* C2: no WorkItem with team "htx" and year < 2002 is ever generated: no URL
\* built, no fetch, no delay, no row; every other (team, year) of the team
\* list and year range, htx from 2002 on included, is emitted exactly once.
C2_ExistenceRule ==
    /\ \A k \in 1..Len(fetches) :
         ~(fetches[k][2] = "htx" /\ fetches[k][4] < 2002)
    /\ \A k \in 1..Len(rows) : ~(rows[k].team = "htx" /\ rows[k].year < 2002)
    /\ url # <<>> => ~(url[2] = "htx" /\ url[4] < 2002)
    /\ pc \in {"fetch", "extract", "append", "sleep"}
         => ~(teams[ti] = "htx" /\ year < 2002)
    /\ \A k \in 1..Len(teams) : \A y \in 1999..(stop - 1) :
         /\ Count(ItemsFetched, <<teams[k], y>>) <= 1
         /\ Count(Items(rows), <<teams[k], y>>) <= 1
         /\ Finished =>
              Count(ItemsFetched, <<teams[k], y>>)
                = (IF teams[k] = "htx" /\ y < 2002 THEN 0 ELSE 1)
         /\ Finished =>
              Count(Items(rows), <<teams[k], y>>)
                = (IF teams[k] = "htx" /\ y < 2002 THEN 0 ELSE 1)

\* A complete run over htx then crd for 1999..2003: htx 1999-2001 skipped.
C2_Witness ==
    /\ pc = "done"
    /\ teams = <<"htx", "crd">> /\ stop = 2004
    /\ Len(fetches) = 7
    /\ ItemsFetched[1] = <<"htx", 2002>>

HtxYears == SelectSeq(ItemsFetched, LAMBDA it : it[1] = "htx")
HtxRange == Finished /\ stop = 2004 /\ \E k \in 1..Len(teams) : teams[k] = "htx"

\* C3 as stated: for "htx" with cutoff 2002 and years 1999..2003 exactly one
\* WorkItem is emitted.
C3_AsStated == HtxRange => Len(HtxYears) = 1

\* C3 (amended): for "htx" with cutoff 2002 and years 1999..2003 exactly two
\* WorkItems are emitted, (htx, 2002) and (htx, 2003).
C3_TwoItems == HtxRange => HtxYears = <<<<"htx", 2002>>, <<"htx", 2003>>>>

C3_Witness ==
    /\ HtxRange
    /\ pc = "done"
    /\ Len(SelectSeq(rows, LAMBDA r : r.team = "htx")) = 2

\* A fetch was made that gave no row and is giving none.
FetchFailed == Len(fetches) > Len(rows) /\ pc \notin {"extract", "append"}

C7_Aborted ==
    /\ FetchFailed =>
        /\ pc = "raised"
        /\ Len(rows) = Len(fetches) - 1
        /\ df = None /\ csv = None /\ uploaded = None
    /\ \A i, j \in 1..Len(fetches) : i # j => fetches[i] # fetches[j]
    /\ csv.some => Len(csv.val) = Len(fetches)

C7_NoStepAfter == ~FetchFailed /\ ~FetchFailed'

\* C7: a fetch failure is fatal: the error leaves scrape_teams, no row is
\* appended for the item, no later item is fetched, the failed fetch is not
\* retried, and the table never reaches the sink: no CSV write, no upload, so
\* the rows appended before are not persisted.
C7_FetchFailureFatal ==
    []C7_Aborted /\ [][C7_NoStepAfter \/ (~FetchFailed /\ pc' = "raised")]_vars

\* The third fetch failed after two rows were appended.
C7_Witness ==
    /\ pc = "raised"
    /\ Len(rows) = 2 /\ Len(fetches) = 3
    /\ csv = None /\ uploaded = None

\* What the two pages hold.
FieldsOf(page) ==
    IF page = PageFull
    THEN [record |-> Some(<<"9", "-", "7", "-", "0">>),
          coaches |-> <<<<"J", "o", "h", "n", " ", "S", "m", "i", "t", "h">>>>]
    ELSE [record |-> None, coaches |-> <<>>]

\* C8: two runs of the pipeline over the same teams and years, with a
\* fetcher that returns the same HTML per URL, give the same table (rows,
\* order, record, coaches) whatever delays are drawn; a page's result does
\* not depend on the pages processed before it.
C8_Deterministic ==
    /\ run = 2 => IsPrefix(rows, table1)
    /\ (run = 2 /\ Finished) => rows = table1 /\ df.val = table1
    /\ \A k \in 1..Len(rows) :
         LET page == site[Url(rows[k].team, rows[k].year)]
         IN  /\ rows[k].record = FieldsOf(page).record
             /\ rows[k].coaches = FieldsOf(page).coaches

\* The second run ended with the first run's table, which has a row of a
\* bare page after a row of a full page and before another full one.
C8_Witness ==
    /\ run = 2 /\ pc = "done"
    /\ Len(rows) >= 3
    /\ rows[1].record # None /\ rows[2].record = None /\ rows[3].record # None
    /\ rows = table1

----------------------------------------------------------------------------
(* The order of the calls of the crawl. *)

\* What one WorkItem does, in order.
Cycle == <<"fetch", "extract", "append", "delay">>

\* The positions of e in l.
Positions(l, e) == {i \in 1..Len(l) : l[i] = e}

\* i and j, of the positions F of the fetches, are two consecutive ones.
ConsecutiveFetches(F, i, j) == i < j /\ \A k \in F : ~(i < k /\ k < j)

\* C12, every state: at most one WorkItem is in flight, and between two
\* consecutive fetches there is exactly one append and one delay, the
\* append first.
C12_State ==
    /\ Count(log, "fetch") = Len(fetches)
    /\ Count(log, "append") = Len(rows)
    /\ Len(fetches) - Len(rows) \in {0, 1}
    /\ Count(log, "append") - Count(log, "delay") \in {0, 1}
    /\ \A i \in 1..Len(log) : log[i] = Cycle[((i - 1) % 4) + 1]
    /\ LET F == Positions(log, "fetch")
           appends == Positions(log, "append")
           delays == Positions(log, "delay")
       IN  \A i, j \in F :
               ConsecutiveFetches(F, i, j) =>
                   LET A == {a \in appends : i < a /\ a < j}
                       D == {d \in delays : i < d /\ d < j}
                   IN  /\ Cardinality(A) = 1
                       /\ Cardinality(D) = 1
                       /\ \A a \in A, d \in D : a < d

\* C12, every step: the log records what the step did, and each call is
\* made only after the one before it in the cycle.
C12_Step ==
    /\ log' = log \/ \E e \in Range(Cycle) : log' = Append(log, e)
    /\ fetches' # fetches <=> log' = Append(log, "fetch")
    /\ rows' # rows <=> log' = Append(log, "append")
    /\ (pc = "sleep" /\ pc' # pc) <=> log' = Append(log, "delay")
    /\ (pc = "extract" /\ pc' # pc) <=> log' = Append(log, "extract")
    /\ log' = Append(log, "fetch") =>
         /\ log = <<>> \/ log[Len(log)] = "delay"
         /\ Len(fetches) = Len(rows)
         /\ Count(log, "delay") = Len(rows)
    /\ log' = Append(log, "extract") => log[Len(log)] = "fetch"
    /\ log' = Append(log, "append") => log[Len(log)] = "extract"
    /\ log' = Append(log, "delay") => log[Len(log)] = "append"

\* C12: the crawl is strictly sequential.  For each emitted WorkItem the
\* calls are fetch, extract, append row, politeness delay, in that order, and
\* the next WorkItem's fetch starts only after the delay that follows the
\* previous append; so fetches started minus rows appended is 0 or 1 in
\* every state, and between two consecutive fetches there is exactly one
\* append and one delay, in that order.
C12_StrictlySequential == []C12_State /\ [][C12_Step]_vars

\* The third WorkItem was fetched and is in flight after two whole cycles.
C12_Witness ==
    /\ pc = "extract"
    /\ Len(fetches) = 3 /\ Len(rows) = 2
    /\ log = Cycle \o Cycle \o <<"fetch">>

----------------------------------------------------------------------------
(* The two passes of extract_info_from_html compared. *)

\* The "Record:" paragraphs among the first n of ps, and those of them that
\* hold a digit triple; the "Coach:" paragraphs of the pool among them.
RecordParas(ps, n) == {k \in 1..n : BeginsWith(ps[k], RecordPrefix)}
TripleParas(ps, n) == {k \in RecordParas(ps, n) : TripleSpans(ps[k]) # {}}
CoachParasIn(ps, n) == {k \in 1..n : ps[k] \in CoachParas}

\* C13, one paragraph: a "Record:" paragraph without a digit triple leaves
\* record as it was, one with a triple sets it; a "Coach:" paragraph sets
\* coaches to its names, the empty sequence if it has none.
C13_Paragraph ==
    pidx' = pidx + 1 =>
        LET p == parser.paragraphs[pidx']
        IN  /\ (BeginsWith(p, RecordPrefix) /\ TripleSpans(p) = {})
                  => record' = record
            /\ (BeginsWith(p, RecordPrefix) /\ TripleSpans(p) # {})
                  => record' = Some(LeftmostTriple(p))
            /\ ~BeginsWith(p, RecordPrefix) => record' = record
            /\ p \in CoachParas => coaches' = NamesOf(p)
            /\ p = ParaCoachNone => coaches' = <<>>
            /\ ~BeginsWith(p, CoachPrefix) => coaches' = coaches

\* C13, the paragraphs read so far: record comes from the last "Record:"
\* paragraph with a triple, whatever "Record:" paragraphs follow it; coaches
\* come from the last "Coach:" paragraph, whatever names came before it.
C13_SoFar ==
    LET ps == parser.paragraphs
        R == RecordParas(ps, pidx)
        T == TripleParas(ps, pidx)
        C == CoachParasIn(ps, pidx)
    IN  /\ (T # {} /\ Largest(R) \notin T) =>
              /\ record # None
              /\ record = Some(LeftmostTriple(ps[Largest(T)]))
        /\ (C # {} /\ ps[Largest(C)] = ParaCoachNone) => coaches = <<>>
        /\ (ps = ParasAsymmetric /\ pidx = 4) =>
              /\ record = Some(<<"9", "-", "7", "-", "0">>)
              /\ coaches = <<>>

\* C13: the two passes are not symmetric.  record is the digit triple of the
\* last "Record:" paragraph that contains one, so a later "Record:"
\* paragraph without a triple does not reset it to None; coaches is always
\* recomputed from the last "Coach:" paragraph, so a later "Coach:"
\* paragraph that yields no names resets coaches to the empty sequence even
\* when an earlier "Coach:" paragraph had names.
C13_PassesAsymmetric == [][C13_Paragraph]_vars /\ []C13_SoFar

\* After a record and a coach, "Record: unknown" kept the record and
\* "Coach:" emptied the coaches.
C13_Witness ==
    /\ pc = "extracted"
    /\ parser.paragraphs = ParasAsymmetric
    /\ record = Some(<<"9", "-", "7", "-", "0">>)
    /\ coaches = <<>>

====
